---- MODULE Spec2Model ----
(***************************************************************************)
(* Anchor: the diff-application engine (anchor/patch.py), the shared       *)
(* helper process_and_apply_diff and the commands edit, modify and write   *)
(* (anchor/cli.py), the conversation buffer (anchor/conversation.py) and   *)
(* the backup manager (anchor/backup.py).                                  *)
(*                                                                         *)
(* A text (a Python str) is a sequence of one-character strings; a line is *)
(* a text without the separator NL.                                        *)
(***************************************************************************)
EXTENDS Integers, Sequences, FiniteSets, TLC

NL == "\n"
SP == " "

Min(S) == CHOOSE x \in S : \A y \in S : x <= y
Max(S) == CHOOSE x \in S : \A y \in S : x >= y

(***************************************************************************)
(* Python str primitives, over the model's alphabet.                       *)
(***************************************************************************)
\* str.isspace for one character
IsSpace(c) == c \in {SP, NL}

\* the positions of s that hold a non-whitespace character
Solid(s) == {i \in 1..Len(s) : ~IsSpace(s[i])}

\* str.strip()
Strip(s) == IF Solid(s) = {} THEN <<>> ELSE SubSeq(s, Min(Solid(s)), Max(Solid(s)))

\* str.rstrip()
RStrip(s) == IF Solid(s) = {} THEN <<>> ELSE SubSeq(s, 1, Max(Solid(s)))

\* str.startswith(p)
StartsWith(s, p) == Len(s) >= Len(p) /\ SubSeq(s, 1, Len(p)) = p

\* the start positions (1-based) at which sub occurs in t
Occurrences(t, sub) ==
    {i \in 1..(Len(t) - Len(sub) + 1) : SubSeq(t, i, i + Len(sub) - 1) = sub}

\* sub in t
Contains(t, sub) == sub = <<>> \/ Occurrences(t, sub) # {}

\* str.splitlines(): split at NL, no empty last line after a final NL
RECURSIVE SplitLines(_)
SplitLines(t) ==
    IF t = <<>> THEN <<>>
    ELSE LET nl == {i \in 1..Len(t) : t[i] = NL} IN
         IF nl = {} THEN <<t>>
         ELSE LET k == Min(nl) IN
              <<SubSeq(t, 1, k - 1)>> \o SplitLines(SubSeq(t, k + 1, Len(t)))

\* "\n".join(ls)
RECURSIVE Join(_)
Join(ls) ==
    IF ls = <<>> THEN <<>>
    ELSE IF Len(ls) = 1 THEN ls[1]
    ELSE ls[1] \o <<NL>> \o Join(Tail(ls))

\* str.replace(old, new) for a non-empty old: every non-overlapping occurrence,
\* left to right
RECURSIVE Replace(_, _, _)
Replace(t, old, new) ==
    IF Occurrences(t, old) = {} THEN t
    ELSE LET k == Min(Occurrences(t, old)) IN
         SubSeq(t, 1, k - 1) \o new
             \o Replace(SubSeq(t, k + Len(old), Len(t)), old, new)

\* the sequences over S of length at most n
SeqsUpTo(S, n) == UNION {[1..k -> S] : k \in 0..n}

(***************************************************************************)
(* anchor/patch.py                                                         *)
(***************************************************************************)
AT2 == <<"@", "@">>
\* the backquote character, named: a string literal cannot hold it
BQ == "BQ"
FENCE == <<BQ, BQ, BQ>>
MINUS3 == <<"-", "-", "-">>
PLUS3 == <<"+", "+", "+">>

\* what a call returns: content, or the PatchError it raises; stage names the
\* return or raise statement that ended the call
Returned(text, st) == [kind |-> "ok", error |-> "none", content |-> text, stage |-> st]
Raised(err) == [kind |-> "PatchError", error |-> err, content |-> <<>>, stage |-> "raise"]

NoHunksFound == "Could not find any changes in the diff."
EmptyChange == "Diff contains no additions or deletions."
NoMatchFound == "Could not find matching context in the file for the suggested changes."

\* A line of the diff inside a hunk starts with one of the three prefixes
HasHunkPrefix(line) == Len(line) > 0 /\ line[1] \in {" ", "+", "-"}

\* The loop over diff_text.splitlines() that collects hunk_lines: dl is what
\* is left to scan, in_hunk the loop's flag
RECURSIVE HunkScan(_, _)
HunkScan(dl, in_hunk) ==
    IF dl = <<>> THEN <<>>
    ELSE LET line == Head(dl)
             rest == Tail(dl) IN
         IF StartsWith(line, AT2) THEN HunkScan(rest, TRUE)
         ELSE IF ~in_hunk THEN HunkScan(rest, FALSE)
         ELSE IF HasHunkPrefix(line) THEN <<line>> \o HunkScan(rest, TRUE)
         ELSE IF Strip(line) = <<>> THEN << <<SP>> >> \o HunkScan(rest, TRUE)
         ELSE IF StartsWith(line, MINUS3) \/ StartsWith(line, PLUS3)
              THEN HunkScan(rest, TRUE)
         ELSE IF Strip(line) = FENCE THEN <<>>
         ELSE HunkScan(rest, TRUE)

hunk_lines(diff_text) == HunkScan(SplitLines(diff_text), FALSE)

\* line[1:] of every hunk line whose prefix is in prefixes, in order
RECURSIVE Block(_, _)
Block(hl, prefixes) ==
    IF hl = <<>> THEN <<>>
    ELSE (IF Head(hl)[1] \in prefixes THEN <<Tail(Head(hl))>> ELSE <<>>)
             \o Block(Tail(hl), prefixes)

search_block(hl) == Block(hl, {" ", "-"})
replace_block(hl) == Block(hl, {" ", "+"})
has_actual_changes(hl) == \E i \in 1..Len(hl) : hl[i][1] \in {"-", "+"}

\* [l.strip() for l in ls]
RECURSIVE StripAll(_)
StripAll(ls) == IF ls = <<>> THEN <<>> ELSE <<Strip(Head(ls))>> \o StripAll(Tail(ls))

\* [l for l in ls if l.strip()]
RECURSIVE NonBlank(_)
NonBlank(ls) ==
    IF ls = <<>> THEN <<>>
    ELSE (IF Strip(Head(ls)) # <<>> THEN <<Head(ls)>> ELSE <<>>) \o NonBlank(Tail(ls))

orig_lines_clean(lines) == StripAll(lines)
search_clean(sb) == StripAll(NonBlank(sb))

\* the loop over range(len(orig_lines_clean) - n + 1): the first i (0-based)
\* with orig_lines_clean[i : i + n] == search_clean, or -1
match_index(olc, sc) ==
    LET hits == {i \in 0..(Len(olc) - Len(sc)) : SubSeq(olc, i + 1, i + Len(sc)) = sc} IN
    IF hits = {} THEN -1 ELSE Min(hits)

\* orig_indices: the 0-based indices of the lines with l.strip() non-empty,
\* ascending; OrigIndex(lines, k) is orig_indices[k] for a 0-based k
NonBlankIdx(lines) == {i \in 0..(Len(lines) - 1) : Strip(lines[i + 1]) # <<>>}

OrigIndex(lines, k) ==
    CHOOSE i \in NonBlankIdx(lines) :
        Cardinality({j \in NonBlankIdx(lines) : j < i}) = k

\* a splice that keeps the last matched line: lines[end_idx:] for lines[end_idx + 1:]
Splice_KeepsLastLine(lines, start_idx, end_idx, rb) ==
    Join(SubSeq(lines, 1, start_idx) \o rb \o SubSeq(lines, end_idx + 1, Len(lines)))

\* lines[:start_idx] + replace_block + lines[end_idx + 1:], joined
Splice(lines, start_idx, end_idx, rb) ==
    Join(SubSeq(lines, 1, start_idx) \o rb \o SubSeq(lines, end_idx + 2, Len(lines)))

\* The last-resort library call, whatthepatch.parse_patch and apply_diff, for the
\* one format the model's inputs hold besides unified diffs: a normal diff with
\* one change command, "1c1" / "< old" / "---" / "> new".  apply_diff checks the
\* old line against the text, deletes it and inserts the new line.  The result
\* is <<TRUE, lines>>, or <<FALSE, <<>>>> when nothing parses, apply_diff raises
\* or its result is empty.
NormalCmd == <<"1", "c", "1">>
OldMark == <<"<", " ">>
NewMark == <<">", " ">>

whatthepatch(dl, lines) ==
    IF /\ Len(dl) = 4
       /\ dl[1] = NormalCmd
       /\ StartsWith(dl[2], OldMark)
       /\ dl[3] = MINUS3
       /\ StartsWith(dl[4], NewMark)
       /\ Len(lines) >= 1
       /\ lines[1] = SubSeq(dl[2], 3, Len(dl[2]))
    THEN <<TRUE, <<SubSeq(dl[4], 3, Len(dl[4]))>> \o Tail(lines)>>
    ELSE <<FALSE, <<>>>>

\* a last resort that gives the original back where the code raises
LastResort_ReturnsOriginal(original_content, diff_text) ==
    LET w == whatthepatch(SplitLines(diff_text), SplitLines(original_content)) IN
    IF w[1] /\ w[2] # <<>> THEN Returned(Join(w[2]), "whatthepatch")
    ELSE Returned(original_content, "whatthepatch")

\* apply_patch_dry_run after hunk_lines was found empty
LastResort(original_content, diff_text) ==
    LET w == whatthepatch(SplitLines(diff_text), SplitLines(original_content)) IN
    IF w[1] /\ w[2] # <<>> THEN Returned(Join(w[2]), "whatthepatch")
    ELSE Raised(NoHunksFound)

\* a pure addition that appends to the original as it is
PureAddition_Untrimmed(original_content, rb) ==
    Returned(original_content \o <<NL>> \o Join(rb), "pure_addition")

\* "Pure addition": original_content.rstrip() + "\n" + "\n".join(replace_block)
PureAddition(original_content, rb) ==
    Returned(RStrip(original_content) \o <<NL>> \o Join(rb), "pure_addition")

\* apply_patch_dry_run from "Search for the block in the original content" on
LocateAndSplice(original_content, sb, rb) ==
    LET lines == SplitLines(original_content)
        olc == orig_lines_clean(lines)
        sc == search_clean(sb)
        n == Len(sc)
        m == match_index(olc, sc)
        search_str == Join(sb) IN
    IF sc = <<>>
    THEN PureAddition(original_content, rb)
    ELSE IF m # -1
    THEN IF Cardinality(NonBlankIdx(lines)) < m + n
         THEN Returned(Replace(original_content, search_str, Join(rb)), "index_fallback")
         ELSE Returned(Splice(lines, OrigIndex(lines, m), OrigIndex(lines, m + n - 1), rb),
                       "fuzzy")
    ELSE IF search_str # <<>> /\ Contains(original_content, search_str)
    THEN Returned(Replace(original_content, search_str, Join(rb)), "raw_substring")
    ELSE Raised(NoMatchFound)

apply_patch_dry_run(original_content, diff_text) ==
    LET hl == hunk_lines(diff_text) IN
    IF hl = <<>> THEN LastResort(original_content, diff_text)
    ELSE IF ~has_actual_changes(hl) THEN Raised(EmptyChange)
    ELSE LocateAndSplice(original_content, search_block(hl), replace_block(hl))

\* str.endswith(p)
EndsWith(s, p) == Len(s) >= Len(p) /\ SubSeq(s, Len(s) - Len(p) + 1, Len(s)) = p

DOTPY == <<".", "p", "y">>

\* A fence tag (diff, patch, python, txt, js) is one symbol of the alphabet
FenceTags == {"diff", "patch", "python", "txt"}
Letters == {"a", "b", "x"} \cup FenceTags \cup {"js"}

\* One logical line of Python source over the alphabet of names, spaces and the
\* operators + - @: st is the tokenizer's place, "operand" (an operand must
\* follow), "name" (inside a name) or "after" (an operand ended)
RECURSIVE ExprLine(_, _)
ExprLine(s, st) ==
    IF s = <<>> THEN st \in {"name", "after"}
    ELSE LET c == Head(s)
             nxt == CASE c \in Letters /\ st \in {"operand", "name"} -> "name"
                      [] c \in {"+", "-"} -> "operand"
                      [] c = "@" /\ st \in {"name", "after"} -> "operand"
                      [] c = SP /\ st = "operand" -> "operand"
                      [] c = SP /\ st \in {"name", "after"} -> "after"
                      [] OTHER -> "error" IN
         nxt # "error" /\ ExprLine(Tail(s), nxt)

\* ast.parse(content) raises no SyntaxError: every non-blank line starts in
\* column 0 (no block is ever open) and is an expression
PyParses(content) ==
    \A i \in 1..Len(SplitLines(content)) :
        LET line == SplitLines(content)[i] IN
        Strip(line) = <<>> \/ (line[1] # SP /\ ExprLine(line, "operand"))

\* a validator that accepts every content
validate_syntax_AcceptsAll(content, filename) == TRUE

validate_syntax(content, filename) ==
    IF EndsWith(filename, DOTPY) THEN PyParses(content) ELSE TRUE

(***************************************************************************)
(* anchor/cli.py: process_and_apply_diff                                   *)
(***************************************************************************)
WordChars == Letters \cup {"1", "c", "_"}
DASH4 == <<"-", "-", "-", SP>>
PLUS4 == <<"+", "+", "+", SP>>

At(text, i, sub) == i + Len(sub) - 1 <= Len(text) /\ SubSeq(text, i, i + Len(sub) - 1) = sub

\* the opening of the first pattern at i: three backquotes, one of the four tags
\* or none, a newline; the value is the position after the newline, 0 for none
Open1(text, i) ==
    IF ~At(text, i, FENCE) THEN 0
    ELSE IF i + 3 <= Len(text) /\ text[i + 3] = NL THEN i + 4
    ELSE IF i + 4 <= Len(text) /\ text[i + 3] \in FenceTags /\ text[i + 4] = NL THEN i + 5
    ELSE 0

\* the opening of the second pattern at i: three backquotes, word characters or
\* none, a newline
Open2(text, i) ==
    IF ~At(text, i, FENCE) THEN 0
    ELSE LET ends == {k \in (i + 3)..Len(text) :
                         /\ text[k] = NL
                         /\ \A j \in (i + 3)..(k - 1) : text[j] \in WordChars} IN
         IF ends = {} THEN 0 ELSE Min(ends) + 1

\* (.*?)(?:fence|$) from position s: the body ends before the next fence, or at
\* the end of the text, or before the text's final newline
LazyBody(text, s) ==
    LET stops == {e \in s..(Len(text) + 1) :
                     \/ At(text, e, FENCE)
                     \/ e = Len(text) + 1
                     \/ (e = Len(text) /\ text[e] = NL)} IN
    SubSeq(text, s, Min(stops) - 1)

\* re.search of the first pattern: <<matched, group(1)>>
Search1(text) ==
    LET at == {i \in 1..Len(text) : Open1(text, i) # 0} IN
    IF at = {} THEN <<FALSE, <<>>>> ELSE <<TRUE, LazyBody(text, Open1(text, Min(at)))>>

\* re.search of the second pattern
Search2(text) ==
    LET at == {i \in 1..Len(text) : Open2(text, i) # 0} IN
    IF at = {} THEN <<FALSE, <<>>>> ELSE <<TRUE, LazyBody(text, Open2(text, Min(at)))>>

\* the fenced-block step
Unfence(text) ==
    IF ~Contains(text, FENCE) THEN text
    ELSE IF Search1(text)[1] THEN Search1(text)[2]
    ELSE IF Search2(text)[1] THEN Search2(text)[2]
    ELSE text

\* FINAL CLEANUP: re.search(r"(--- .*?@@.*?\n.*)") keeps the text from the first
\* "--- " that an "@@" and then a newline follow
Cleanup(text) ==
    IF ~(Contains(text, DASH4) /\ Contains(text, PLUS4)) THEN text
    ELSE LET at == {i \in 1..Len(text) :
                       /\ At(text, i, DASH4)
                       /\ \E j \in (i + 4)..Len(text) :
                              /\ At(text, j, AT2)
                              /\ \E k \in (j + 2)..Len(text) : text[k] = NL} IN
         IF at = {} THEN text ELSE SubSeq(text, Min(at), Len(text))

\* clean_text as process_and_apply_diff holds it after clean_text.strip()
clean_text(raw_response) == Strip(Cleanup(Unfence(raw_response)))

NotCalled == [kind |-> "not_called", error |-> "none", content |-> <<>>, stage |-> "none"]

\* What process_and_apply_diff does: kind is "content" (return new_content),
\* "None" (return None) or "Exit" (raise typer.Exit(code)); patch is what the
\* call of apply_patch_dry_run gave, NotCalled when it was not made
Outcome(k, c, text, p) == [kind |-> k, code |-> c, content |-> text, patch |-> p]

\* a call of apply_patch_dry_run made in new-file mode too
PatchCall_AlsoForNewFile(content, raw_response, is_new_file) ==
    IF clean_text(raw_response) = <<>> THEN NotCalled
    ELSE apply_patch_dry_run(content, clean_text(raw_response))

\* the call of apply_patch_dry_run that the else branch of "if is_new_file" makes
PatchCall(content, raw_response, is_new_file) ==
    IF is_new_file \/ clean_text(raw_response) = <<>> THEN NotCalled
    ELSE apply_patch_dry_run(content, clean_text(raw_response))

\* a helper that gives the content back unchanged when the patch fails
process_and_apply_diff_KeepsOnError(content, raw_response, file_path, is_new_file) ==
    LET ct == clean_text(raw_response)
        p == PatchCall(content, raw_response, is_new_file)
        new_content == IF p.kind = "not_called" THEN ct ELSE p.content IN
    IF ~is_new_file /\ ct = <<>> THEN Outcome("None", 0, <<>>, p)
    ELSE IF p.kind = "PatchError" THEN Outcome("content", 0, content, p)
    ELSE IF ~validate_syntax(new_content, file_path) THEN Outcome("Exit", 1, <<>>, p)
    ELSE Outcome("content", 0, new_content, p)

process_and_apply_diff(content, raw_response, file_path, is_new_file) ==
    LET ct == clean_text(raw_response)
        p == PatchCall(content, raw_response, is_new_file)
        new_content == IF p.kind = "not_called" THEN ct ELSE p.content IN
    IF ~is_new_file /\ ct = <<>> THEN Outcome("None", 0, <<>>, p)
    ELSE IF p.kind = "PatchError" THEN Outcome("Exit", 1, <<>>, p)
    ELSE IF ~validate_syntax(new_content, file_path) THEN Outcome("Exit", 1, <<>>, p)
    ELSE Outcome("content", 0, new_content, p)

(***************************************************************************)
(* anchor/backup.py: BackupManager.  A file's content is an opaque value;  *)
(* a backup file is named by the source's base name and the timestamp, and *)
(* holds a content or is missing.                                          *)
(***************************************************************************)
Paths == {"d1/f.py", "d2/f.py"}
\* Path(file_path).resolve().name
BaseName(p) == "f.py"
FileContents == {"v0", "v1"}
Missing == "missing"

\* BACKUP_DIR / f"{src.name}.{timestamp}.bak"
BackupName(p, t) == <<BaseName(p), t>>

\* the entry create_backup appends
Entry(p, t) == [original_file |-> p, backup_file |-> BackupName(p, t), timestamp |-> t]

\* BackupManager.__init__: self.history as loaded from history.json, the
\* stored list (empty when there is no file)
LoadHistory(stored) == stored

\* BackupManager.create_backup(file_path) at time t, on a manager whose
\* self.history is h: the backup files, self.history, history.json and the
\* value returned
create_backup(h, fs, bk, p, t) ==
    [ backups |-> [bk EXCEPT ![BackupName(p, t)] = fs[p]],
      history |-> Append(h, Entry(p, t)),
      stored |-> Append(h, Entry(p, t)),
      files |-> fs,
      ret |-> BackupName(p, t) ]

\* a pop from the front: the list without its first entry
Popped_Oldest(h) == Tail(h)

\* self.history.pop(): the list without its last entry
Popped(h) == SubSeq(h, 1, Len(h) - 1)

\* BackupManager.restore_last_backup() on a manager whose self.history is h,
\* with history.json holding stored
restore_last_backup(h, fs, bk, stored) ==
    IF h = <<>>
    THEN [backups |-> bk, history |-> h, stored |-> stored, files |-> fs, ret |-> "None"]
    ELSE LET last_entry == h[Len(h)] IN
         IF bk[last_entry.backup_file] # Missing
         THEN [ backups |-> bk,
                history |-> Popped(h),
                stored |-> Popped(h),
                files |-> [fs EXCEPT ![last_entry.original_file] = bk[last_entry.backup_file]],
                ret |-> last_entry.original_file ]
         ELSE [ backups |-> bk,
                history |-> Popped(h),
                stored |-> stored,
                files |-> fs,
                ret |-> "FileNotFoundError" ]

(***************************************************************************)
(* anchor/cli.py: the commands edit, modify and write, from the target's   *)
(* file system point of view.  A run of a command is at "backup" (its next *)
(* step is create_backup), at "write" (its next step writes the target) or *)
(* at "end".                                                               *)
(***************************************************************************)
Commands == {"edit", "modify", "write"}
\* a path that does not exist, and the content of a file just touched or opened
Absent == "absent"
Empty == "empty"

\* no backup taken
NoBackup == <<"none", 0>>

\* the run record: wrote says whether the run has written its target,
\* backup names the backup the run took
Run(c, a, p, nf, nc, b, w) ==
    [cmd |-> c, at |-> a, path |-> p, new_file_mode |-> nf, new_content |-> nc,
     backup |-> b, wrote |-> w]
NoRun == Run("none", "idle", "none", FALSE, "none", NoBackup, FALSE)

\* a write command that overwrites without a backup
TakesBackup_NotForWrite(cmd, exists) == cmd \in {"edit", "modify"}

\* whether the command, once it has content to write, takes a backup first:
\* edit and modify always, write when the file exists
TakesBackup(cmd, exists) == cmd \in {"edit", "modify"} \/ exists

\* whether the command goes on to its write with what process_and_apply_diff
\* gave: edit stops on None, modify on a falsy value
GoesOn(cmd, new_content) ==
    CASE cmd = "edit" -> new_content # "None"
      [] cmd = "modify" -> new_content \notin {"None", Empty}
      [] OTHER -> TRUE

(***************************************************************************)
(* anchor/backup.py, step by step: two commands run at the same time, each *)
(* with a BackupManager of its own on a file of its own.  A manager is     *)
(* "new" before its construction, then "constructed", then has "copied"    *)
(* the file, "appended" the entry and "saved" the history.                 *)
(***************************************************************************)
Managers == {"m1", "m2"}

\* the file the manager's command works on
Target(m) == IF m = "m1" THEN "d1/f.py" ELSE "d2/f.py"

NoEntry == [original_file |-> "none", backup_file |-> NoBackup, timestamp |-> 0]

Manager(a, h, e) == [at |-> a, history |-> h, entry |-> e]
NoManagers == [m \in Managers |-> Manager("idle", <<>>, NoEntry)]

\* _save_history: json.dump(self.history) into history.json opened with "w",
\* whatever the file held
Saved(stored, h) == h

(***************************************************************************)
(* anchor/conversation.py: ConversationBuffer, and the steps of modify     *)
(* that change it.  A message is its role and its phase.                   *)
(***************************************************************************)
DISCUSS == "discuss"
PLAN == "plan"
CONFIRM == "confirm"
EDIT == "edit"
SAVE == "save"
ConversationPhase == {DISCUSS, PLAN, CONFIRM, EDIT, SAVE}

\* implementation_plan: Optional[str] = None
NoPlan == "None"
\* what client.chat can return for the plan: a text, or "" when the reply
\* has no content
EmptyText == ""
PlanResponses == {"steps", EmptyText}

Message(role, phase) == [role |-> role, phase |-> phase]

\* ConversationBuffer(feature_request=..., context_summary=...)
ConversationBuffer ==
    [messages |-> <<>>, current_phase |-> DISCUSS,
     implementation_plan |-> NoPlan, confirmed |-> FALSE]

\* no modify has run
NoBuffer ==
    [messages |-> <<>>, current_phase |-> "none",
     implementation_plan |-> NoPlan, confirmed |-> FALSE]

\* buffer.add_message(role, content, phase); phase None is the current phase
add_message(b, role, phase) ==
    [b EXCEPT !.messages =
        Append(b.messages, Message(role, IF phase = "None" THEN b.current_phase ELSE phase))]

\* buffer.transition_to(phase)
transition_to(b, phase) == [b EXCEPT !.current_phase = phase]

\* buffer.is_complete()
is_complete(b) == b.confirmed /\ b.implementation_plan # NoPlan

\* modify's "4. Planning": the plan is recorded and the phase is CONFIRM
Planned(b, plan_response) ==
    transition_to([b EXCEPT !.implementation_plan = plan_response], CONFIRM)

\* a confirmation step that goes on whatever the user answers
Confirmed_WhateverTheAnswer(b, proceed) ==
    transition_to(b, EDIT)

\* modify's confirmation: when the user declines the command exits and the
\* buffer stays as it is; otherwise confirmed is set and the phase is EDIT
Confirmed(b, proceed) ==
    IF ~proceed THEN b
    ELSE transition_to([b EXCEPT !.confirmed = TRUE], EDIT)

(***************************************************************************)
(* The engine as a state machine.  The engine is a pure function of its    *)
(* arguments: Init draws the arguments of one call, by a test or by a      *)
(* command, from the bounded sets below, and the call's action computes    *)
(* what it gives.                                                          *)
(***************************************************************************)
VARIABLES
    fn,                 \* the function to call
    pc,                 \* "args" before the call, "done" after it
    original_content,   \* the original text (content)
    diff_text,          \* the diff text handed to apply_patch_dry_run
    result,             \* what apply_patch_dry_run gave
    raw_response,       \* process_and_apply_diff's raw response
    file_path,          \* the target's file name
    is_new_file,        \* new-file mode
    outcome,            \* what process_and_apply_diff did
    valid,              \* what validate_syntax returned
    files,              \* the working tree: path -> content
    backups,            \* .anchor/backups: backup name -> content, or Missing
    history_file,       \* the list stored in history.json
    history,            \* self.history of the BackupManager made last
    now,                \* the clock, in seconds
    bop,                \* the backup operation run last
    ret,                \* what it returned
    run,                \* the command in progress: its place and what it holds
    mgr,                \* the BackupManagers of concurrent commands: place, self.history, entry
    buffer              \* the ConversationBuffer of modify

engine == <<fn, pc, original_content, diff_text, result,
            raw_response, file_path, is_new_file, outcome, valid>>

store == <<files, backups, history_file, history, now, bop, ret, run, mgr, buffer>>

vars == <<engine, store>>

MaxOrigLines == 3
MaxHunkLines == 3
MaxHistory == 3
MaxTime == 1
MaxContentLen == 3
MaxMessages == 3

\* Originals and hunk bodies with indentation drift, blank lines and repeats
OrigLineSet == {<<"a">>, <<SP, "a">>, <<>>}
HunkLineSet == {<<SP, "a">>, <<"-", "a">>, <<"+", "b">>, <<"+", "a">>, <<>>}

Originals == {Join(ls) : ls \in SeqsUpTo(OrigLineSet, MaxOrigLines)}
HunkBodies == SeqsUpTo(HunkLineSet, MaxHunkLines)

\* diffs of one bare hunk header and a body
BareDiffs == {Join(<<AT2>> \o body) : body \in HunkBodies}

\* Complete diffs as tests/test_patch.py writes them: file headers, a hunk
\* header with a numeric range, a body, a final newline; over originals of
\* distinct lines without blank ones
OrigLineSet2 == {<<"a">>, <<SP, "b">>, <<"b">>}
HunkLineSet2 == {<<SP, "a">>, <<"-", SP, "b">>, <<"+", SP, "x">>, <<"-", "a">>}
FileHeaders == << <<"-", "-", "-", SP, "f">>, <<"+", "+", "+", SP, "f">> >>
\* hunk headers with ranges that fit the file, do not fit it, or are missing
HunkHeaders ==
    { <<"@", "@", SP, "-", "1", ",", "2", SP, "+", "1", ",", "2", SP, "@", "@">>,
      <<"@", "@", SP, "-", "7", SP, "+", "9", SP, "@", "@">>,
      AT2 }

FullDiff(hdr, body) == Join(FileHeaders \o <<hdr>> \o body) \o <<NL>>
Originals2 ==
    {Join(ls) \o <<NL>> :
        ls \in {x \in SeqsUpTo(OrigLineSet2, MaxOrigLines) :
                   \A i, j \in 1..Len(x) : x[i] = x[j] => i = j}}
TestHeader == <<"@", "@", SP, "-", "1", ",", "2", SP, "+", "1", ",", "2", SP, "@", "@">>
FullDiffs == {FullDiff(TestHeader, body) : body \in SeqsUpTo(HunkLineSet2, MaxHunkLines)}

\* Texts that hold no hunk: no header line, a header with nothing under it,
\* commentary, and normal-format diffs
NormalDiffs ==
    {Join(<<NormalCmd, OldMark \o old, MINUS3, NewMark \o <<"b">> >>) :
        old \in {<<"a">>, <<SP, "a">>}}
NoHunkDiffs ==
    {Join(body) : body \in SeqsUpTo({<<"-", "a">>, <<"+", "b">>}, MaxHunkLines)}
        \cup {<<"x">>, <<"x", SP, "x">>, AT2, Join(<<AT2, <<"x">> >>), Join(<<FENCE, AT2>>)}
        \cup NormalDiffs

\* Originals with a line that holds the searched text twice, for the
\* substring replacement, and hunks of removes and adds
TwiceLineSet == {<<"a", SP, "a">>, <<"a">>, <<>>}
TwiceOriginals == {Join(ls) : ls \in SeqsUpTo(TwiceLineSet, MaxOrigLines)}
ChangeDiffs ==
    {Join(<<AT2>> \o body) : body \in SeqsUpTo({<<"-", "a">>, <<"+", "b">>}, MaxHunkLines)}

\* Hunks with file header lines under the hunk header, as a model repeats them
StrayLineSet ==
    {<<"-", "-", "-", SP, "f">>, <<"+", "+", "+", SP, "f">>, <<"-", "a">>, <<"+", "b">>}
StrayDiffs == {Join(<<AT2>> \o body) : body \in SeqsUpTo(StrayLineSet, MaxHunkLines)}

\* Hunks with commentary, a closing fence or a second hunk header between
\* their lines
CommentLineSet == {<<"x">>, <<"-", "a">>, FENCE, AT2}
CommentedDiffs == {Join(<<AT2>> \o body) : body \in SeqsUpTo(CommentLineSet, MaxHunkLines)}

\* Raw responses: a payload (code, or a diff) as the model sends it, bare, in a
\* fenced block, with commentary around the block, or with the fence left open
Payloads ==
    { <<>>,
      <<"a">>,
      <<"a", SP, "b">>,
      <<"a", NL, SP, "b">>,
      Join(<<AT2, <<"-", "a">>, <<"+", "b">> >>),
      Join(<<AT2, <<"-", "a">>, <<"+", "b">>, <<"+", SP, "b">> >>),
      Join(FileHeaders \o <<AT2, <<"-", "a">>, <<"+", "b">> >>) \o <<NL>> }
Fenced(tag, p) == FENCE \o tag \o <<NL>> \o p \o <<NL>> \o FENCE
Wrappings(p) ==
    { p,
      <<SP>> \o p \o <<NL>>,
      Fenced(<<"diff">>, p),
      Fenced(<<>>, p),
      Fenced(<<"js">>, p),
      <<"x", NL>> \o Fenced(<<"python">>, p) \o <<NL, "x">>,
      Fenced(<<"js">>, p) \o <<NL, "x">>,
      <<"x", NL>> \o p,
      FENCE \o <<"diff", NL>> \o p }
RawResponses == UNION {Wrappings(p) : p \in Payloads}
FileNames == { <<"f", ".", "p", "y">>, <<"f", ".", "t", "x", "t">>, <<"f", ".", "p", "y", "c">> }
\* the contents process_and_apply_diff is given for the file under edit
Contents == {c \in Originals : Len(c) <= MaxContentLen}

NoOutcome == Outcome("none", 0, <<>>, NotCalled)

InitApply ==
    /\ fn = "apply_patch_dry_run"
    /\ \/ original_content \in Originals /\ diff_text \in BareDiffs \cup NoHunkDiffs
       \/ original_content \in TwiceOriginals /\ diff_text \in ChangeDiffs
       \/ original_content \in Contents /\ diff_text \in StrayDiffs \cup CommentedDiffs
       \/ original_content \in Originals2 /\ diff_text \in FullDiffs
    /\ raw_response = <<>> /\ file_path = <<>> /\ is_new_file = FALSE

InitProcess ==
    /\ fn = "process_and_apply_diff"
    /\ original_content \in Contents
    /\ raw_response \in RawResponses
    /\ file_path \in FileNames
    /\ is_new_file \in BOOLEAN
    /\ diff_text = <<>>

InitValidate ==
    /\ fn = "validate_syntax"
    /\ original_content \in Originals \cup Payloads
    /\ file_path \in FileNames
    /\ raw_response = <<>> /\ is_new_file = FALSE /\ diff_text = <<>>

InitEngine ==
    /\ pc = "args"
    /\ result = NotCalled
    /\ outcome = NoOutcome
    /\ valid = "not_called"
    /\ (InitApply \/ InitProcess \/ InitValidate)

\* the working tree and an empty .anchor/backups
BackupNames == {BackupName(p, t) : p \in Paths, t \in 0..MaxTime}
InitStore ==
    /\ files = [p \in Paths |-> "v0"]
    /\ backups = [b \in BackupNames |-> Missing]
    /\ history_file = <<>>
    /\ history = <<>>
    /\ now = 0
    /\ bop = "none"
    /\ ret = "none"
    /\ run = NoRun
    /\ mgr = NoManagers
    /\ buffer = NoBuffer

\* a call of apply_patch_dry_run, as the tests make it
Apply ==
    /\ pc = "args"
    /\ fn = "apply_patch_dry_run"
    /\ pc' = "done"
    /\ result' = apply_patch_dry_run(original_content, diff_text)
    /\ UNCHANGED <<fn, original_content, diff_text, raw_response, file_path,
                   is_new_file, outcome, valid>>
    /\ UNCHANGED store

\* a call of validate_syntax(content, filename), as the tests make it
Validate ==
    /\ pc = "args"
    /\ fn = "validate_syntax"
    /\ pc' = "done"
    /\ valid' = validate_syntax(original_content, file_path)
    /\ UNCHANGED <<fn, original_content, diff_text, raw_response, file_path,
                   is_new_file, outcome, result>>
    /\ UNCHANGED store

\* a call of process_and_apply_diff(content, raw_response, file_path, console,
\* is_new_file), as edit and modify make it; diff_text and result record the
\* call of apply_patch_dry_run inside it
Process ==
    /\ pc = "args"
    /\ fn = "process_and_apply_diff"
    /\ pc' = "done"
    /\ outcome' = process_and_apply_diff(original_content, raw_response, file_path, is_new_file)
    /\ result' = outcome'.patch
    /\ diff_text' = IF outcome'.patch.kind = "not_called" THEN <<>> ELSE clean_text(raw_response)
    /\ UNCHANGED <<fn, original_content, raw_response, file_path, is_new_file, valid>>
    /\ UNCHANGED store

Init == InitEngine /\ InitStore

Next == Apply \/ Validate \/ Process

Spec == Init /\ [][Next]_vars

(***************************************************************************)
(* The backup store as a state machine: commands run one after another,    *)
(* each with a BackupManager of its own, while the clock advances and the  *)
(* user edits or deletes files.                                            *)
(***************************************************************************)
EngineIdle ==
    /\ fn = "none" /\ pc = "done"
    /\ original_content = <<>> /\ diff_text = <<>> /\ raw_response = <<>>
    /\ file_path = <<>> /\ is_new_file = FALSE
    /\ result = NotCalled /\ outcome = NoOutcome /\ valid = "not_called"

\* a second passes
Tick ==
    /\ now < MaxTime
    /\ now' = now + 1
    /\ bop' = "tick" /\ ret' = "none"
    /\ UNCHANGED <<files, backups, history_file, history>>
    /\ UNCHANGED <<engine, run, mgr, buffer>>

\* file_path.write_text(new_content) of a command, or an edit by the user
WriteFile ==
    \E p \in Paths, c \in FileContents :
        /\ files' = [files EXCEPT ![p] = c]
        /\ bop' = "write" /\ ret' = "none"
        /\ UNCHANGED <<backups, history_file, history, now>>
        /\ UNCHANGED <<engine, run, mgr, buffer>>

\* backup_mgr = BackupManager(); backup_mgr.create_backup(str(file_path))
CreateBackup ==
    \E p \in Paths :
        /\ Len(history_file) < MaxHistory
        /\ LET r == create_backup(LoadHistory(history_file), files, backups, p, now) IN
           /\ files' = r.files
           /\ backups' = r.backups
           /\ history' = r.history
           /\ history_file' = r.stored
           /\ ret' = r.ret
        /\ bop' = "create_backup"
        /\ UNCHANGED now
        /\ UNCHANGED <<engine, run, mgr, buffer>>

\* the undo command: BackupManager(), restore_last_backup(), the error printed
Undo ==
    /\ LET r == restore_last_backup(LoadHistory(history_file), files, backups, history_file) IN
       /\ files' = r.files
       /\ backups' = r.backups
       /\ history' = r.history
       /\ history_file' = r.stored
       /\ ret' = r.ret
    /\ bop' = "undo"
    /\ UNCHANGED now
    /\ UNCHANGED <<engine, run, mgr, buffer>>

\* the user deletes a backup file
RemoveBackupFile ==
    \E b \in BackupNames :
        /\ backups[b] # Missing
        /\ backups' = [backups EXCEPT ![b] = Missing]
        /\ bop' = "remove_backup" /\ ret' = "none"
        /\ UNCHANGED <<files, history_file, history, now>>
        /\ UNCHANGED <<engine, run, mgr, buffer>>

InitBackup == EngineIdle /\ InitStore

NextBackup == Tick \/ WriteFile \/ CreateBackup \/ Undo \/ RemoveBackupFile

SpecBackup == InitBackup /\ [][NextBackup]_vars

(***************************************************************************)
(* The commands as a state machine: runs of edit, modify and write one     *)
(* after another, each in steps, with undo between them, all within one    *)
(* second of the clock.                                                    *)
(***************************************************************************)
\* some files of the working tree exist, some do not
InitCommands ==
    /\ EngineIdle
    /\ files \in [Paths -> {"v0", Absent}]
    /\ backups = [b \in BackupNames |-> Missing]
    /\ history_file = <<>>
    /\ history = <<>>
    /\ now = 0
    /\ bop = "none"
    /\ ret = "none"
    /\ run = NoRun
    /\ mgr = NoManagers
    /\ buffer = NoBuffer

Between == run.at \in {"idle", "end"}

\* what process_and_apply_diff can give a command: content, None, or an exit
Verdicts == FileContents \cup {Empty, "None", "Exit"}

\* edit up to "4. Backup & Apply": a missing file is touched, the response is
\* processed, and the run stops on an exit or on None
StartEdit ==
    \E p \in Paths, v \in Verdicts :
        /\ Between
        /\ Len(history_file) < MaxHistory
        /\ LET nf == files[p] = Absent IN
           /\ files' = IF nf THEN [files EXCEPT ![p] = Empty] ELSE files
           /\ run' = IF v # "Exit" /\ GoesOn("edit", v)
                     THEN Run("edit", IF TakesBackup("edit", TRUE) THEN "backup" ELSE "write",
                              p, nf, v, NoBackup, FALSE)
                     ELSE Run("edit", "end", p, nf, "none", NoBackup, FALSE)
        /\ bop' = "start" /\ ret' = "none"
        /\ UNCHANGED <<backups, history_file, history, now>>
        /\ UNCHANGED <<engine, mgr, buffer>>

\* modify up to "Backup & Apply": the plan may be declined, the file must
\* exist to be read, and a falsy new_content applies nothing
StartModify ==
    \E p \in Paths, v \in Verdicts, confirmed \in BOOLEAN :
        /\ Between
        /\ Len(history_file) < MaxHistory
        /\ run' = IF confirmed /\ files[p] # Absent /\ v # "Exit" /\ GoesOn("modify", v)
                  THEN Run("modify", IF TakesBackup("modify", TRUE) THEN "backup" ELSE "write",
                           p, FALSE, v, NoBackup, FALSE)
                  ELSE Run("modify", "end", p, FALSE, "none", NoBackup, FALSE)
        /\ bop' = "start" /\ ret' = "none"
        /\ UNCHANGED <<files, backups, history_file, history, now>>
        /\ UNCHANGED <<engine, mgr, buffer>>

\* write up to its backup: an existing file needs the user's consent
StartWrite ==
    \E p \in Paths, overwrite \in BOOLEAN :
        /\ Between
        /\ Len(history_file) < MaxHistory
        /\ run' = IF files[p] # Absent /\ ~overwrite
                  THEN Run("write", "end", p, FALSE, "none", NoBackup, FALSE)
                  ELSE Run("write",
                           IF TakesBackup("write", files[p] # Absent) THEN "backup" ELSE "write",
                           p, files[p] = Absent, "none", NoBackup, FALSE)
        /\ bop' = "start" /\ ret' = "none"
        /\ UNCHANGED <<files, backups, history_file, history, now>>
        /\ UNCHANGED <<engine, mgr, buffer>>

\* backup_mgr = BackupManager(); backup_mgr.create_backup(str(file_path))
RunBackup ==
    /\ run.at = "backup"
    /\ LET r == create_backup(LoadHistory(history_file), files, backups, run.path, now) IN
       /\ files' = r.files
       /\ backups' = r.backups
       /\ history' = r.history
       /\ history_file' = r.stored
       /\ ret' = r.ret
       /\ run' = [run EXCEPT !.at = "write", !.backup = r.ret]
    /\ bop' = "create_backup"
    /\ UNCHANGED now
    /\ UNCHANGED <<engine, mgr, buffer>>

\* file_path.write_text(new_content) of edit and modify
RunWriteText ==
    /\ run.at = "write"
    /\ run.cmd \in {"edit", "modify"} /\ ~run.new_file_mode
    /\ files' = [files EXCEPT ![run.path] = run.new_content]
    /\ run' = [run EXCEPT !.at = "end", !.wrote = TRUE, !.new_content = "none"]
    /\ bop' = "write_text" /\ ret' = "none"
    /\ UNCHANGED <<backups, history_file, history, now>>
    /\ UNCHANGED <<engine, mgr, buffer>>

\* LiveCodeWriter.write_stream of write and of edit in new-file mode, given a
\* token stream by the client: the file is opened for writing and holds the
\* tokens that arrived, whatever new_content is
RunWriteStream ==
    \E c \in FileContents \cup {Empty} :
        /\ run.at = "write"
        /\ run.cmd = "write" \/ (run.cmd = "edit" /\ run.new_file_mode)
        /\ files' = [files EXCEPT ![run.path] = c]
        /\ run' = [run EXCEPT !.at = "end", !.wrote = TRUE]
        /\ bop' = "write_stream" /\ ret' = "none"
        /\ UNCHANGED <<backups, history_file, history, now>>
        /\ UNCHANGED <<engine, mgr, buffer>>

\* client.stream_generate(system_prompt, task) raises before write_stream is
\* called (anchor/llm.py defines generate and chat, no stream_generate, so the
\* call is an AttributeError): edit ends on the exception, write prints it and
\* exits with code 1, and the file is left as it is
RunStreamFails ==
    /\ run.at = "write"
    /\ run.cmd = "write" \/ (run.cmd = "edit" /\ run.new_file_mode)
    /\ run' = [run EXCEPT !.at = "end", !.new_content = "none"]
    /\ bop' = "stream_error" /\ ret' = "none"
    /\ UNCHANGED <<files, backups, history_file, history, now>>
    /\ UNCHANGED <<engine, mgr, buffer>>

\* the undo command, between two runs
UndoBetween == Between /\ Undo

NextCommands ==
    \/ StartEdit \/ StartModify \/ StartWrite
    \/ RunBackup \/ RunWriteText \/ RunWriteStream \/ RunStreamFails
    \/ UndoBetween

SpecCommands == InitCommands /\ [][NextCommands]_vars

(***************************************************************************)
(* Two commands at the same time: each constructs its BackupManager and    *)
(* runs create_backup on its own file, their steps interleaved in every    *)
(* order, while the clock advances.  A step is one statement of backup.py; *)
(* the write of history.json is taken as one step.                         *)
(***************************************************************************)
InitManagers ==
    /\ EngineIdle
    /\ files = [p \in Paths |-> "v0"]
    /\ backups = [b \in BackupNames |-> Missing]
    /\ history_file = <<>>
    /\ history = <<>>
    /\ now = 0
    /\ bop = "none"
    /\ ret = "none"
    /\ run = NoRun
    /\ mgr = [m \in Managers |-> Manager("new", <<>>, NoEntry)]
    /\ buffer = NoBuffer

\* BackupManager(): self.history is what history.json holds
Construct(m) ==
    /\ mgr[m].at = "new"
    /\ mgr' = [mgr EXCEPT ![m] = Manager("constructed", LoadHistory(history_file), NoEntry)]
    /\ bop' = "construct" /\ ret' = "none"
    /\ UNCHANGED <<files, backups, history_file, history, now, run, buffer>>
    /\ UNCHANGED engine

\* create_backup up to its entry: the timestamp is read, the file is copied
CopyFile(m) ==
    /\ mgr[m].at = "constructed"
    /\ backups' = [backups EXCEPT ![BackupName(Target(m), now)] = files[Target(m)]]
    /\ mgr' = [mgr EXCEPT ![m] = Manager("copied", mgr[m].history, Entry(Target(m), now))]
    /\ bop' = "copy" /\ ret' = "none"
    /\ UNCHANGED <<files, history_file, history, now, run, buffer>>
    /\ UNCHANGED engine

\* self.history.append(entry)
AppendEntry(m) ==
    /\ mgr[m].at = "copied"
    /\ mgr' = [mgr EXCEPT ![m] = Manager("appended", Append(mgr[m].history, mgr[m].entry), mgr[m].entry)]
    /\ bop' = "append" /\ ret' = "none"
    /\ UNCHANGED <<files, backups, history_file, history, now, run, buffer>>
    /\ UNCHANGED engine

\* self._save_history(); return str(dst)
SaveHistory(m) ==
    /\ mgr[m].at = "appended"
    /\ history_file' = Saved(history_file, mgr[m].history)
    /\ history' = mgr[m].history
    /\ mgr' = [mgr EXCEPT ![m].at = "saved"]
    /\ bop' = "save" /\ ret' = mgr[m].entry.backup_file
    /\ UNCHANGED <<files, backups, now, run, buffer>>
    /\ UNCHANGED engine

NextManagers ==
    \/ Tick
    \/ \E m \in Managers : Construct(m) \/ CopyFile(m) \/ AppendEntry(m) \/ SaveHistory(m)

SpecManagers == InitManagers /\ [][NextManagers]_vars

(***************************************************************************)
(* The modify command as a state machine: runs of modify one after         *)
(* another, each in the steps of its conversation and then its backup and  *)
(* its write.  A run is at "discuss", "plan", "confirm" or "edit" (the     *)
(* statement of cli.py it executes next), then at "backup" and "write".    *)
(* A chat that is not answered raises RuntimeError, which ends the run.    *)
(***************************************************************************)
\* modify up to its discussion loop: the buffer is made and holds the
\* assistant's analysis; file is the --file option, "none" when not given
ModifyBegin ==
    \E file \in Paths \cup {"none"}, answered \in BOOLEAN :
        /\ Between
        /\ Len(history_file) < MaxHistory
        /\ buffer' = IF answered
                      THEN add_message(ConversationBuffer, "assistant", DISCUSS)
                      ELSE ConversationBuffer
        /\ run' = Run("modify", IF answered THEN "discuss" ELSE "end",
                       file, FALSE, "none", NoBackup, FALSE)
        /\ bop' = "modify" /\ ret' = "none"
        /\ UNCHANGED <<files, backups, history_file, history, now, mgr>>
        /\ UNCHANGED engine

\* one turn of "3. Discussion Loop": the user types plan, or gives feedback
\* that the assistant answers
ModifyDiscuss ==
    \E user_input \in {"plan", "feedback"}, answered \in BOOLEAN :
        /\ run.cmd = "modify" /\ run.at = "discuss"
        /\ buffer.current_phase = DISCUSS
        /\ IF user_input = "plan"
           THEN /\ buffer' = transition_to(buffer, PLAN)
                /\ run' = [run EXCEPT !.at = "plan"]
           ELSE /\ Len(buffer.messages) < MaxMessages
                /\ buffer' = IF answered
                              THEN add_message(add_message(buffer, "user", "None"),
                                               "assistant", "None")
                              ELSE add_message(buffer, "user", "None")
                /\ run' = [run EXCEPT !.at = IF answered THEN "discuss" ELSE "end"]
        /\ bop' = "discuss" /\ ret' = "none"
        /\ UNCHANGED <<files, backups, history_file, history, now, mgr>>
        /\ UNCHANGED engine

\* "4. Planning": in phase PLAN the plan the chat returns is recorded
ModifyPlan ==
    \E plan_response \in PlanResponses, answered \in BOOLEAN :
        /\ run.cmd = "modify" /\ run.at = "plan"
        /\ IF buffer.current_phase = PLAN
           THEN IF answered
                THEN /\ buffer' = Planned(buffer, plan_response)
                     /\ run' = [run EXCEPT !.at = "confirm"]
                ELSE /\ buffer' = buffer
                     /\ run' = [run EXCEPT !.at = "end"]
           ELSE /\ buffer' = buffer
                /\ run' = [run EXCEPT !.at = "confirm"]
        /\ bop' = "plan" /\ ret' = "none"
        /\ UNCHANGED <<files, backups, history_file, history, now, mgr>>
        /\ UNCHANGED engine

\* the confirmation: in phase CONFIRM the user is asked, and a refusal exits
ModifyConfirm ==
    \E proceed \in BOOLEAN :
        /\ run.cmd = "modify" /\ run.at = "confirm"
        /\ IF buffer.current_phase = CONFIRM
           THEN /\ buffer' = Confirmed(buffer, proceed)
                /\ run' = [run EXCEPT !.at = IF proceed THEN "edit" ELSE "end"]
           ELSE /\ buffer' = buffer
                /\ run' = [run EXCEPT !.at = "edit"]
        /\ bop' = "confirm" /\ ret' = "none"
        /\ UNCHANGED <<files, backups, history_file, history, now, mgr>>
        /\ UNCHANGED engine

\* "5. Execution" up to the backup: in phase EDIT the file is asked for when
\* it was not given, it is read (it must exist), the response is processed,
\* and a falsy new_content applies nothing
ModifyEdit ==
    \E p \in Paths, v \in Verdicts :
        /\ run.cmd = "modify" /\ run.at = "edit"
        /\ run.path # "none" => p = run.path
        /\ run' = IF /\ buffer.current_phase = EDIT
                     /\ files[p] # Absent /\ v # "Exit" /\ GoesOn("modify", v)
                  THEN Run("modify", IF TakesBackup("modify", TRUE) THEN "backup" ELSE "write",
                           p, FALSE, v, NoBackup, FALSE)
                  ELSE Run("modify", "end", p, FALSE, "none", NoBackup, FALSE)
        /\ bop' = "edit_phase" /\ ret' = "none"
        /\ UNCHANGED <<files, backups, history_file, history, now, mgr, buffer>>
        /\ UNCHANGED engine

NextModify ==
    \/ ModifyBegin \/ ModifyDiscuss \/ ModifyPlan \/ ModifyConfirm \/ ModifyEdit
    \/ RunBackup \/ RunWriteText

SpecModify == InitCommands /\ [][NextModify]_vars

(***************************************************************************)
(* Vocabulary of the properties of apply_patch_dry_run                     *)
(***************************************************************************)
\* apply_patch_dry_run was called, directly or by process_and_apply_diff
Applied == pc = "done" /\ result.kind # "not_called"
L == SplitLines(original_content)
HL == hunk_lines(diff_text)
SB == search_block(HL)
RB == replace_block(HL)

\* the hunk has a line op, one of them an Add or a Remove
IsChange == HL # <<>> /\ \E i \in 1..Len(HL) : HL[i][1] \in {"-", "+"}
\* a line of ls has non-whitespace content
HasSolidLine(ls) == \E i \in 1..Len(ls) : \E j \in 1..Len(ls[i]) : ls[i][j] # SP

\* the 0-based starts of the runs of L equal to sb, byte for byte
ExactStartsOf(sb) == {k \in 0..(Len(L) - Len(sb)) : SubSeq(L, k + 1, k + Len(sb)) = sb}
\* ... equal to sb line by line after trimming both
TrimStartsOf(sb) ==
    {k \in 0..(Len(L) - Len(sb)) : StripAll(SubSeq(L, k + 1, k + Len(sb))) = StripAll(sb)}
\* L[0:k] + rb + L[k + len(sb):]
SpliceOf(k, sb, rb) == SubSeq(L, 1, k) \o rb \o SubSeq(L, k + Len(sb) + 1, Len(L))

ExactStarts == ExactStartsOf(SB)
TrimStarts == TrimStartsOf(SB)
SpliceAt(k) == SpliceOf(k, SB, RB)
\* the text t has the line sequence ls (a final newline apart)
SameLines(t, ls) == t = Join(ls) \/ t = Join(ls) \o <<NL>>

\* C1: when SearchBlock (with a non-blank line, in a hunk that changes
\* something) equals a contiguous run of the original's lines, the call returns
\* the original with exactly that run replaced by ReplaceBlock.
C1_ExactSpanReplaced ==
    (Applied /\ IsChange /\ HasSolidLine(SB) /\ ExactStarts # {})
        => /\ result.kind = "ok"
           /\ \E k \in ExactStarts : SameLines(result.content, SpliceAt(k))

\* C2: a hunk whose SearchBlock equals its ReplaceBlock fails with EmptyChange
\* and returns no content.
C2_EmptyChangeRejected ==
    (Applied /\ HL # <<>> /\ SB = RB) => result = Raised(EmptyChange)

\* C3: when SearchBlock occurs at two or more positions of the original, only
\* the occurrence with the lowest start index is replaced.
C3_LowestOccurrenceReplaced ==
    (Applied /\ IsChange /\ HasSolidLine(SB) /\ Cardinality(ExactStarts) >= 2)
        => /\ result.kind = "ok"
           /\ SameLines(result.content, SpliceAt(Min(ExactStarts)))

\* C4: when SearchBlock equals a contiguous run of the original line by line
\* after trimming, the call does not fail with NoMatchFound and replaces such a
\* run; and a span the fuzzy stage replaces never differs from SearchBlock in
\* non-whitespace content.
C4_WhitespaceDriftMatches ==
    /\ (Applied /\ IsChange /\ HasSolidLine(SB) /\ TrimStarts # {})
           => /\ result.kind = "ok"
              /\ \E k \in TrimStarts : SameLines(result.content, SpliceAt(k))
    /\ (Applied /\ result.stage = "fuzzy")
           => \E i \in 0..Len(L) : \E j \in i..Len(L) :
                  /\ StripAll(NonBlank(SubSeq(L, i + 1, j))) = StripAll(NonBlank(SB))
                  /\ SameLines(result.content,
                               SubSeq(L, 1, i) \o RB \o SubSeq(L, j + 1, Len(L)))

\* C5 as claimed: a hunk that changes something and whose SearchBlock has no
\* line with non-whitespace content gives original + separator + ReplaceBlock,
\* the whole original kept as a prefix.
C5_AppendKeepsWholeOriginal ==
    (Applied /\ IsChange /\ ~HasSolidLine(SB))
        => /\ result.kind = "ok"
           /\ \E sep \in {<<>>, <<NL>>} :
                  result.content = original_content \o sep \o Join(RB)

\* C5 as amended: the result is the original up to its last non-whitespace
\* character, a newline, and ReplaceBlock; what is dropped of the original is
\* trailing whitespace only.
C5_AppendAfterTrimmedOriginal ==
    (Applied /\ IsChange /\ ~HasSolidLine(SB))
        => /\ result.kind = "ok"
           /\ \E k \in 0..Len(original_content) :
                  /\ result.content = SubSeq(original_content, 1, k) \o <<NL>> \o Join(RB)
                  /\ \A j \in (k + 1)..Len(original_content) : IsSpace(original_content[j])
                  /\ k = 0 \/ ~IsSpace(original_content[k])

\* a pure addition to an original that ends in blank lines
C5_Witness ==
    /\ Applied /\ IsChange /\ ~HasSolidLine(SB)
    /\ RB = << <<"b">> >>
    /\ original_content = <<"a", NL, NL>>
    /\ result.content = <<"a", NL, "b">>

\* no line of the diff text begins with "@@"
NoHeaderLine ==
    \A i \in 1..Len(SplitLines(diff_text)) : ~StartsWith(SplitLines(diff_text)[i], AT2)

\* C6 as claimed: a diff text from which the hunk parser produces no LineOp, in
\* particular one with no line beginning with "@@", fails with NoHunksFound for
\* every original and never returns content.
C6_NoHunkAlwaysFails ==
    (Applied /\ (HL = <<>> \/ NoHeaderLine)) => result = Raised(NoHunksFound)

\* the library's last resort parses the diff text and applies it to the original
LibraryApplies == whatthepatch(SplitLines(diff_text), L)[1]

\* C6 as amended: such a diff text fails with NoHunksFound unless the
\* whatthepatch library parses it and applies it to the original, and then the
\* library's result is returned.
C6_NoHunkFailsUnlessLibraryApplies ==
    (Applied /\ (HL = <<>> \/ NoHeaderLine))
        => IF LibraryApplies
           THEN result.kind = "ok" /\ result.content = Join(whatthepatch(SplitLines(diff_text), L)[2])
           ELSE result = Raised(NoHunksFound)

\* the "invalid diff" of tests/test_patch.py: commentary, no hunk header
C6_Witness ==
    /\ Applied /\ NoHeaderLine /\ ~LibraryApplies
    /\ diff_text = <<"x", SP, "x">>
    /\ original_content # <<>>
    /\ result = Raised(NoHunksFound)

\* The diff text is a complete diff: two file headers, one hunk header, and a
\* body of prefixed lines with exactly one Remove and one Add
DL == SplitLines(diff_text)
Body == SubSeq(DL, 4, Len(DL))
IsCompleteDiff ==
    /\ StartsWith(diff_text, DASH4)
    /\ Len(DL) >= 5
    /\ StartsWith(DL[1], DASH4) /\ StartsWith(DL[2], PLUS4) /\ StartsWith(DL[3], AT2)
    /\ \A i \in 1..Len(Body) : Len(Body[i]) > 0 /\ Body[i][1] \in {" ", "-", "+"}
    /\ Cardinality({i \in 1..Len(Body) : Body[i][1] = "-"}) = 1
    /\ Cardinality({i \in 1..Len(Body) : Body[i][1] = "+"}) = 1

\* the lines of Body with a prefix in ps, the prefix dropped
RECURSIVE Payload(_, _)
Payload(b, ps) ==
    IF b = <<>> THEN <<>>
    ELSE (IF Head(b)[1] \in ps THEN <<Tail(Head(b))>> ELSE <<>>) \o Payload(Tail(b), ps)

BodySearch == Payload(Body, {" ", "-"})
BodyReplace == Payload(Body, {" ", "+"})
RemoveAt == CHOOSE i \in 1..Len(Body) : Body[i][1] = "-"
AddAt == CHOOSE i \in 1..Len(Body) : Body[i][1] = "+"
NoBlankOriginalLine == L # <<>> /\ \A i \in 1..Len(L) : \E j \in 1..Len(L[i]) : L[i][j] # SP

\* the original with the removed line replaced by the added line, for a match
\* at k and an Add that follows its Remove directly
LineReplaced(k) ==
    [i \in 1..Len(L) |->
        IF i = k + Len(Payload(SubSeq(Body, 1, RemoveAt), {" ", "-"}))
        THEN Tail(Body[AddAt]) ELSE L[i]]

C7_Case ==
    /\ Applied /\ IsCompleteDiff /\ NoBlankOriginalLine
    /\ Cardinality(ExactStartsOf(BodySearch)) = 1
    /\ Cardinality(TrimStartsOf(BodySearch)) = 1

C12_ExactMatchBeforeFuzzy ==
    (Applied /\ IsChange /\ HasSolidLine(SB) /\ ExactStarts # {}
       /\ \E k \in TrimStarts : k < Min(ExactStarts))
        => /\ result.kind = "ok"
           /\ SameLines(result.content, SpliceAt(Min(ExactStarts)))

\* the trimmed non-blank lines of SearchBlock, and the 0-based positions j in
\* the original's non-blank lines where a run of consecutive non-blank lines
\* equals them after trimming
SC == StripAll(NonBlank(SB))
FuzzyStarts ==
    {j \in 0..(Cardinality(NonBlankIdx(L)) - Len(SC)) :
        \A i \in 1..Len(SC) : Strip(L[OrigIndex(L, j + i - 1) + 1]) = SC[i]}
\* the original indices of the first and the last line of the run at j
FirstOf(j) == OrigIndex(L, j)
LastOf(j) == OrigIndex(L, j + Len(SC) - 1)
\* blank lines sit between the lines of the run at j
BlankBetween(j) == LastOf(j) - FirstOf(j) + 1 > Len(SC)

\* C13: when the trimmed non-blank lines of SearchBlock equal a run of
\* consecutive non-blank lines of the original, also one with blank lines
\* between its lines that the diff does not have, the match succeeds and the
\* span replaced runs from the first matched line to the last, the blank lines
\* between them included.
C13_FuzzySkipsBlankLines ==
    (Applied /\ IsChange /\ SC # <<>> /\ \E j \in FuzzyStarts : BlankBetween(j))
        => /\ result.kind = "ok"
           /\ \E j \in FuzzyStarts :
                  SameLines(result.content,
                            SubSeq(L, 1, FirstOf(j)) \o RB \o SubSeq(L, LastOf(j) + 2, Len(L)))

\* the text t with its first occurrence of sub replaced by new
ReplaceFirst(t, sub, new) ==
    LET at == {i \in 1..Len(t) : At(t, i, sub)} IN
    IF at = {} THEN t
    ELSE SubSeq(t, 1, Min(at) - 1) \o new \o SubSeq(t, Min(at) + Len(sub), Len(t))

\* C14: a result that comes from the raw substring replacement is the original
\* with the first occurrence of SearchBlock, joined by newlines, replaced by
\* ReplaceBlock, every other occurrence and all other text unchanged.
C14_SubstringReplacedOnce ==
    (Applied /\ result.stage \in {"raw_substring", "index_fallback"})
        => result.content = ReplaceFirst(original_content, Join(SB), Join(RB))

\* a line beginning with "---" or "+++"
IsHeaderLine(line) == StartsWith(line, MINUS3) \/ StartsWith(line, PLUS3)
\* the lines without those
RECURSIVE DropHeaderLines(_)
DropHeaderLines(ls) ==
    IF ls = <<>> THEN <<>>
    ELSE (IF IsHeaderLine(Head(ls)) THEN <<>> ELSE <<Head(ls)>>) \o DropHeaderLines(Tail(ls))
\* the diff text opens a hunk with its first line and a later line is a header
HeaderInHunk ==
    /\ StartsWith(diff_text, AT2)
    /\ \E i \in 2..Len(DL) : IsHeaderLine(DL[i])
WithoutHeaders == Join(DropHeaderLines(DL))

\* C15: a line beginning with "---" or "+++" inside a hunk contributes no LineOp:
\* the hunk lines, and with them the result, are those of the diff text
\* without these lines.
C15_StrayHeaderIgnored ==
    (Applied /\ HeaderInHunk)
        => /\ HL = hunk_lines(WithoutHeaders)
           /\ result = apply_patch_dry_run(original_content, WithoutHeaders)

\* the lines of a diff text that opens a hunk with its first line which are
\* not blank, not prefixed, no file header and no hunk header
Terminators ==
    {i \in 2..Len(DL) :
        /\ Strip(DL[i]) # <<>>
        /\ DL[i][1] \notin {" ", "+", "-"}
        /\ ~StartsWith(DL[i], AT2)}
\* the diff text up to the first of them
BeforeTerminator == Join(SubSeq(DL, 1, Min(Terminators) - 1))

\* C16: the first non-blank, non-prefixed line inside a hunk ends the scan: the
\* hunk lines, and with them the result, are those of the diff text cut before
\* that line.
C16_CommentaryEndsHunk ==
    (Applied /\ StartsWith(diff_text, AT2) /\ Terminators # {})
        => /\ HL = hunk_lines(BeforeTerminator)
           /\ result = apply_patch_dry_run(original_content, BeforeTerminator)

(***************************************************************************)
(* Properties of process_and_apply_diff and validate_syntax                *)
(***************************************************************************)
Processed == pc = "done" /\ fn = "process_and_apply_diff"

\* C8: in new-file mode apply_patch_dry_run is not called, and the content
\* returned, when content is returned, is the extracted text itself.
C8_NewFileBypassesMatcher ==
    (Processed /\ is_new_file)
        => /\ result = NotCalled
           /\ outcome.patch = NotCalled
           /\ outcome.kind \in {"content", "Exit"}
           /\ outcome.kind = "content" => outcome.content = clean_text(raw_response)

\* a new file whose raw response is a fenced diff: the diff is the content
C8_Witness ==
    /\ Processed /\ is_new_file
    /\ raw_response = Fenced(<<"diff">>, Join(<<AT2, <<"-", "a">>, <<"+", "b">> >>))
    /\ file_path = <<"f", ".", "t", "x", "t">>
    /\ outcome.kind = "content"
    /\ outcome.content = Join(<<AT2, <<"-", "a">>, <<"+", "b">> >>)

\* The fenced blocks of the raw response: the fences in order open and close
\* blocks in turn; a block's tag is the text between its opening fence and the
\* end of that line, its body the text from the next line to its closing
\* fence, or to the end of the response when the block is left open
FenceAt == {i \in 1..Len(raw_response) : At(raw_response, i, FENCE)}
NthFence(n) == CHOOSE i \in FenceAt : Cardinality({j \in FenceAt : j < i}) = n - 1
BlockCount == (Cardinality(FenceAt) + 1) \div 2
BlockEnd(b) ==
    IF 2 * b <= Cardinality(FenceAt) THEN NthFence(2 * b) - 1 ELSE Len(raw_response)
TagEnd(b) ==
    LET nls == {k \in (NthFence(2 * b - 1) + 3)..BlockEnd(b) : raw_response[k] = NL} IN
    IF nls = {} THEN BlockEnd(b) + 1 ELSE Min(nls)
BlockTag(b) == SubSeq(raw_response, NthFence(2 * b - 1) + 3, TagEnd(b) - 1)
BlockBody(b) == SubSeq(raw_response, TagEnd(b) + 1, BlockEnd(b))
IsDiffTag(tag) == Len(tag) = 1 /\ tag[1] \in FenceTags
\* the block of the ordered preference
ChosenBlock ==
    LET tagged == {b \in 1..BlockCount : IsDiffTag(BlockTag(b))} IN
    IF tagged # {} THEN Min(tagged) ELSE 1

\* C17: when the raw response holds a fenced block, the extracted text is the
\* trimmed body of the first block tagged diff, patch, python or txt, or else
\* of the first block; never text outside the blocks.
C17_FencedBodyExtracted ==
    (Processed /\ FenceAt # {}) => clean_text(raw_response) = Strip(BlockBody(ChosenBlock))

\* the file name is one of the recognized source language
IsPyName(name) == Len(name) >= 3 /\ SubSeq(name, Len(name) - 2, Len(name)) = <<".", "p", "y">>

\* the content process_and_apply_diff hands to validate_syntax, when it gets
\* that far
Candidate == IF result.kind = "ok" THEN result.content ELSE clean_text(raw_response)
ReachedValidation ==
    Processed /\ (is_new_file \/ result.kind = "ok")

\* C9: validate_syntax succeeds for every content under a file name that does
\* not end in ".py"; under one that does it succeeds exactly when the content
\* parses; and process_and_apply_diff returns content only when validation
\* succeeds, and exits with code 1 without content when it fails.
C9_ValidationGate ==
    /\ (pc = "done" /\ fn = "validate_syntax")
           => valid = (IsPyName(file_path) => PyParses(original_content))
    /\ ReachedValidation
           => IF IsPyName(file_path) /\ ~PyParses(Candidate)
              THEN outcome = Outcome("Exit", 1, <<>>, result)
              ELSE outcome = Outcome("content", 0, Candidate, result)

\* a patch that applies but leaves an indented line at top level of a .py file
C9_Witness ==
    /\ ReachedValidation /\ ~is_new_file
    /\ file_path = <<"f", ".", "p", "y">>
    /\ result.kind = "ok"
    /\ ~PyParses(result.content)
    /\ outcome.kind = "Exit" /\ outcome.code = 1

\* the run ended with content that the matcher gave and validation passed, or
\* with a failure: a PatchError of the matcher or a failed validation, exit
\* code 1 and no content
EndsInContentOrFailure ==
    \/ /\ outcome.kind = "content"
       /\ result.kind = "ok"
       /\ outcome.content = result.content
       /\ (IsPyName(file_path) => PyParses(outcome.content))
    \/ /\ outcome.kind = "Exit" /\ outcome.code = 1 /\ outcome.content = <<>>
       /\ \/ result.kind = "PatchError" /\ result.error \in {NoHunksFound, EmptyChange, NoMatchFound}
          \/ result.kind = "ok" /\ IsPyName(file_path) /\ ~PyParses(result.content)

\* C18 as claimed: in diff mode every run of process_and_apply_diff ends with
\* content that came out of the matcher and passed validation, or with a
\* failure and exit code 1, an empty extracted text included.
C18_DiffModeContentOrFailure ==
    (Processed /\ ~is_new_file) => EndsInContentOrFailure

\* C18 as amended: the same for every non-empty extracted text; on an empty
\* extracted text the matcher is not called and the run returns None.
C18_DiffModeContentFailureOrNone ==
    (Processed /\ ~is_new_file)
        => IF clean_text(raw_response) = <<>>
           THEN outcome = Outcome("None", 0, <<>>, NotCalled) /\ result = NotCalled
           ELSE EndsInContentOrFailure

\* a response that is an empty fenced block, in diff mode
C18_Witness ==
    /\ Processed /\ ~is_new_file
    /\ raw_response = Fenced(<<"diff">>, <<>>)
    /\ original_content # <<>>
    /\ outcome.kind = "None"
    /\ result = NotCalled

(***************************************************************************)
(* Properties of the backup store                                          *)
(***************************************************************************)
LastEntry == history_file[Len(history_file)]

\* C10 as claimed: an undo on a non-empty history removes exactly the most
\* recent entry and copies that entry's backup over its original path, all
\* earlier entries unchanged; on an empty history it returns None and changes
\* neither files nor history; it never adds an entry.
C10_UndoPopsAndRestores ==
    [][bop' = "undo" =>
          IF history_file = <<>>
          THEN ret' = "None" /\ UNCHANGED <<files, backups, history_file>>
          ELSE /\ history_file' = SubSeq(history_file, 1, Len(history_file) - 1)
               /\ history' = history_file'
               /\ files' = [files EXCEPT ![LastEntry.original_file] = backups[LastEntry.backup_file]]
               /\ ret' = LastEntry.original_file
               /\ backups' = backups]_vars

\* C10 as amended: the same, provided the most recent entry's backup file
\* exists; when it is missing the undo fails with FileNotFoundError, copies
\* nothing and leaves the stored history as it was.
C10_UndoPopsAndRestoresExistingBackup ==
    [][bop' = "undo" =>
          IF history_file = <<>>
          THEN ret' = "None" /\ UNCHANGED <<files, backups, history_file>>
          ELSE IF backups[LastEntry.backup_file] # Missing
          THEN /\ history_file' = SubSeq(history_file, 1, Len(history_file) - 1)
               /\ history' = history_file'
               /\ files' = [files EXCEPT ![LastEntry.original_file] = backups[LastEntry.backup_file]]
               /\ ret' = LastEntry.original_file
               /\ backups' = backups
          ELSE /\ ret' = "FileNotFoundError"
               /\ UNCHANGED <<files, backups, history_file>>]_vars

\* two files backed up and edited one after the other, then one undo: the
\* second file is restored and the first file's entry is what is left
C10_Witness ==
    /\ bop = "undo"
    /\ ret = "d1/f.py"
    /\ Len(history_file) = 1
    /\ history_file[1].original_file = "d2/f.py"
    /\ files["d1/f.py"] = "v0"
    /\ files["d2/f.py"] = "v1"
    /\ backups[history_file[1].backup_file] = "v0"

\* the step run last is an operation of a BackupManager
ManagerOperation == bop \in {"create_backup", "undo"}

\* C19: after every BackupManager operation the in-memory history equals the
\* history stored in history.json, also after a restore_last_backup that
\* failed because the backup file is missing.
C19_MemoryEqualsStoredHistory ==
    ManagerOperation => history = history_file

\* C20: all entries of the history name pairwise distinct backup files, so
\* that no create_backup overwrites the backup of an earlier entry, also
\* within one second and for files of the same base name.
C20_BackupPathsDistinct ==
    \A i, j \in 1..Len(history_file) :
        history_file[i].backup_file = history_file[j].backup_file => i = j

(***************************************************************************)
(* Properties of the commands                                              *)
(***************************************************************************)
\* the step is a write of the run's target by its command
CommandWrite == bop' \in {"write_text", "write_stream"}

\* C11: a write by edit, modify or write that changes the content of a target
\* that already exists happens in a run that took a backup before: the backup
\* holds the content the file had before the write and the history's last entry
\* names the file and that backup; the backup step copies the file as it is
\* and appends one entry; and no run takes a backup after it has written.
C11_BackupPrecedesWrite ==
    [][/\ (CommandWrite /\ files[run.path] # Absent /\ files'[run.path] # files[run.path])
            => /\ run.backup \in BackupNames
               /\ backups[run.backup] = files[run.path]
               /\ history_file # <<>>
               /\ LastEntry.original_file = run.path
               /\ LastEntry.backup_file = run.backup
       /\ (bop' = "create_backup")
            => /\ ~run.wrote
               /\ run'.backup \in BackupNames
               /\ backups'[run'.backup] = files[run.path]
               /\ files' = files
               /\ history_file' = Append(history_file, Entry(run.path, now))
               /\ run'.backup = Entry(run.path, now).backup_file]_vars

\* an edit of an existing file has run to its end: the file holds the new
\* content and the run's backup holds the old
C11_Witness ==
    /\ run.cmd = "edit" /\ run.at = "end" /\ run.wrote /\ ~run.new_file_mode
    /\ bop = "write_text"
    /\ files[run.path] = "v1"
    /\ run.backup \in BackupNames
    /\ backups[run.backup] = "v0"
    /\ Len(history_file) = 1

(***************************************************************************)
(* Properties of concurrent commands                                       *)
(***************************************************************************)
\* the entry is in the list
Holds(h, e) == \E i \in 1..Len(h) : h[i] = e

\* C21: when two BackupManager instances, of two concurrent commands on
\* independent files, each perform create_backup, then in every interleaving
\* of their construction, append and _save_history steps the history on disk
\* ends up containing both entries: no entry written by one instance is lost
\* to the other's save.
C21_BothEntriesStored ==
    (\A m \in Managers : mgr[m].at = "saved")
        => \A m \in Managers : Holds(history_file, mgr[m].entry)

(***************************************************************************)
(* Properties of the modify command                                        *)
(***************************************************************************)
\* the moves between phases that follow the order DISCUSS, PLAN, CONFIRM, EDIT
PhaseOrder == {<<DISCUSS, PLAN>>, <<PLAN, CONFIRM>>, <<CONFIRM, EDIT>>}

\* a step of modify: a new run starts in DISCUSS with nothing recorded; within
\* a run the phase only moves along PhaseOrder; EDIT is entered, and held,
\* only with confirmed set and a plan of the set plans recorded; the files,
\* the backups and the stored history change only in phase EDIT; and a step
\* in which the user declines ends the run and changes none of them
PhasedModify(plans) ==
    /\ bop' = "modify"
         => /\ buffer'.current_phase = DISCUSS
            /\ ~buffer'.confirmed
            /\ buffer'.implementation_plan = NoPlan
    /\ (bop' # "modify" /\ buffer'.current_phase # buffer.current_phase)
         => <<buffer.current_phase, buffer'.current_phase>> \in PhaseOrder
    /\ buffer'.current_phase = EDIT
         => buffer'.confirmed /\ buffer'.implementation_plan \in plans
    /\ (files' # files \/ backups' # backups \/ history_file' # history_file)
         => /\ run.cmd = "modify"
            /\ buffer.current_phase = EDIT /\ buffer'.current_phase = EDIT
            /\ is_complete(buffer)
    /\ (bop' = "confirm" /\ ~buffer'.confirmed)
         => /\ buffer'.current_phase = CONFIRM
            /\ run'.at = "end"
            /\ UNCHANGED <<files, backups, history_file>>

\* C22 as claimed: in the modify command the phase only advances in the order
\* DISCUSS, PLAN, CONFIRM, EDIT, no phase skipped or revisited; the EDIT phase
\* is entered only with confirmed = True and a non-empty implementation plan
\* recorded; a backup or a write of the target happens only in the EDIT phase;
\* and when the user declines the plan no file and no history entry changes.
C22_PhasesInOrderNonEmptyPlan ==
    [][PhasedModify(PlanResponses \ {EmptyText})]_vars

\* C22 as amended: the same, with the plan recorded being whatever the chat
\* returned for it, the empty text included (implementation_plan is not None).
C22_PhasesInOrderPlanRecorded ==
    [][PhasedModify(PlanResponses)]_vars

\* a modify has run through its four phases to its end: the plan was
\* confirmed, the backup holds the old content and the file the new
C22_Witness ==
    /\ run.cmd = "modify" /\ run.at = "end" /\ run.wrote
    /\ bop = "write_text"
    /\ buffer.current_phase = EDIT /\ is_complete(buffer)
    /\ Len(buffer.messages) > 1
    /\ files[run.path] = "v1"
    /\ backups[run.backup] = "v0"

\* the user declined the plan: the run is over in phase CONFIRM with nothing
\* stored
C22_WitnessDeclined ==
    /\ run.cmd = "modify" /\ run.at = "end" /\ bop = "confirm"
    /\ buffer.current_phase = CONFIRM /\ ~buffer.confirmed
    /\ buffer.implementation_plan # NoPlan
    /\ history_file = <<>>

====
